---- MODULE Spec2Model ----
(***************************************************************************)
(* State-machine model of the dashboard backend: src/python/app.py (the    *)
(* Flask handlers) over src/python/database.py (the SQLite store).         *)
(*                                                                         *)
(* Text that takes part in token handling is a sequence of atoms: atom 0   *)
(* is the substring "Bearer ", atom n >= 1 is the text of the n-th token   *)
(* produced by generate_token (secrets.token_urlsafe(32): 256 random bits, *)
(* modelled as never repeating), other positive atoms are text no token    *)
(* consists of.  The empty sequence is the empty string.                   *)
(***************************************************************************)
EXTENDS Integers, Sequences, FiniteSets, TLC

VARIABLES
    picture,     \* the picture a client has at hand to upload
    db,          \* the SQLite file: settings, groups, services, AUTOINCREMENT counters
    foreignKeys, \* whether the SQLite build enforces foreign keys on a new connection
    issued,      \* how many tokens generate_token has produced
    lastReq,     \* the request handled last (sequential service)
    resp,        \* the response to lastReq
    probe,       \* fetch_icon's loop over the favicon candidates
    thr          \* the worker threads of the threaded server

vars == <<picture, db, foreignKeys, issued, lastReq, resp, probe, thr>>

-----------------------------------------------------------------------------
(* Bounds of the model *)

MaxTokens == 2        \* successful authentications explored
MaxRows == 2          \* rows ever inserted into groups (the NAS group included) and services
MaxDim == 140         \* width and height of the pictures explored
NThreads == 2         \* worker threads serving requests at the same time

-----------------------------------------------------------------------------
(* Values *)

\* Python's None where a string is expected
None == <<-1>>

\* the substring "Bearer "
Bearer == 0

\* AUTH_KEY = os.environ.get("AUTH_KEY", "12345")
AUTH_KEY == "12345"

Token(n) == <<n>>

\* auth_key values a client may send ("" is what data.get defaults to)
AuthKeys == {AUTH_KEY, "54321"}

\* token texts a client may present: every token that can be issued, and one that never is
TokenTexts == {Token(n) : n \in 1..(MaxTokens + 1)}

\* Authorization header values "Bearer <token>"
BearerHeaders == {<<Bearer>> \o Token(n) : n \in 1..MaxTokens}

\* Authorization header values: those, and an absent header (None)
Headers == {None} \cup BearerHeaders

\* bodies of POST /api/verify: the token field, or "" when it is missing
VerifyTokens == {<<>>} \cup TokenTexts

Names == {"a"}
NoName == "<missing>"
NoOrder == -1

\* values of force_network_mode, as atom texts; "auto" is the handler's default
Auto == <<100>>
Modes == {<<101>>}
NoText == "<missing>"

-----------------------------------------------------------------------------
(* database.py *)

NasGroup == [name |-> "NAS", order_num |-> 1, is_nas_service |-> TRUE]

\* Database.__init__ / _init_db on a fresh file
InitDb ==
    [settings |-> <<>>,
     groups |-> (1 :> NasGroup),
     services |-> <<>>,
     groupSeq |-> 1,
     serviceSeq |-> 0]

get_setting(d, key) ==
    IF key \in DOMAIN d.settings THEN d.settings[key] ELSE None

\* set_setting, were it INSERT OR IGNORE: a row that exists is kept
set_setting_keep(d, key, value) ==
    [d EXCEPT !.settings = @ @@ (key :> value)]

set_setting(d, key, value) ==
    [d EXCEPT !.settings = (key :> value) @@ @]

Restrict(f, S) == [x \in S |-> f[x]]

\* ORDER BY order_num, id
RECURSIVE OrderBy(_, _)
OrderBy(rows, ids) ==
    IF ids = {} THEN <<>>
    ELSE LET m == CHOOSE i \in ids : \A j \in ids :
                      \/ rows[i].order_num < rows[j].order_num
                      \/ rows[i].order_num = rows[j].order_num /\ i <= j
         IN <<m>> \o OrderBy(rows, ids \ {m})

get_all_groups(d) ==
    LET gs == OrderBy(d.groups, DOMAIN d.groups)
    IN [k \in 1..Len(gs) |->
          [id |-> gs[k],
           services |-> OrderBy(d.services,
                                {s \in DOMAIN d.services : d.services[s].group_id = gs[k]})]]

db_create_group(d, name, order, is_nas_service) ==
    [d EXCEPT !.groupSeq = @ + 1,
              !.groups = ((d.groupSeq + 1) :>
                            [name |-> name, order_num |-> order,
                             is_nas_service |-> is_nas_service]) @@ @]

db_update_group(d, group_id, name, order) ==
    IF group_id \notin DOMAIN d.groups THEN d
    ELSE IF order # NoOrder
         THEN [d EXCEPT !.groups[group_id].name = name,
                        !.groups[group_id].order_num = order]
         ELSE [d EXCEPT !.groups[group_id].name = name]

\* DELETE FROM groups WHERE id = ?; the services' ON DELETE CASCADE acts only on a
\* connection that enforces foreign keys
db_delete_group(d, fk, group_id) ==
    [d EXCEPT !.groups = Restrict(@, DOMAIN @ \ {group_id}),
              !.services = IF fk
                           THEN Restrict(@, {s \in DOMAIN @ : @[s].group_id # group_id})
                           ELSE @]

db_create_service(d, group_id, name, url_public, url_local, icon, order) ==
    [d EXCEPT !.serviceSeq = @ + 1,
              !.services = ((d.serviceSeq + 1) :>
                              [group_id |-> group_id, name |-> name,
                               url_public |-> url_public, url_local |-> url_local,
                               icon |-> icon, order_num |-> order]) @@ @]

db_update_service(d, service_id, name, url_public, url_local, icon, order) ==
    IF service_id \notin DOMAIN d.services THEN d
    ELSE [d EXCEPT !.services[service_id] =
            [group_id |-> @.group_id,
             name |-> name,
             url_public |-> IF url_public # NoText THEN url_public ELSE @.url_public,
             url_local |-> IF url_local # NoText THEN url_local ELSE @.url_local,
             icon |-> IF icon # NoText THEN icon ELSE @.icon,
             order_num |-> IF order # NoOrder THEN order ELSE @.order_num]]

db_delete_service(d, service_id) ==
    [d EXCEPT !.services = Restrict(@, DOMAIN @ \ {service_id})]

-----------------------------------------------------------------------------
(* app.py: the token *)

Truthy(s) == s # None /\ s # <<>>

\* verify_token, were it to test only that a token is stored
verify_token_any(d, token) ==
    LET stored_token == get_setting(d, "access_token")
    IN Truthy(stored_token)

verify_token(d, token) ==
    LET stored_token == get_setting(d, "access_token")
    IN Truthy(stored_token) /\ stored_token = token

\* request.headers.get("Authorization", "").replace("Bearer ", "")
BearerToken(header) ==
    SelectSeq(IF header = None THEN <<>> ELSE header, LAMBDA a : a # Bearer)

-----------------------------------------------------------------------------
(* app.py: responses.  One record shape for every handler: the fields a
   handler does not send keep their blank value. *)

Reply(status) ==
    [status |-> status, token |-> None, icon |-> <<>>, size |-> <<0, 0>>,
     id |-> 0, list |-> <<>>, mode |-> <<>>]

Unauthorized == Reply(401)

\* what a handler leaves behind: the database and the response
Outcome(d, r) == [db |-> d, resp |-> r]

-----------------------------------------------------------------------------
(* app.py: authentication *)

\* authenticate, were the token generated once and handed out again
authenticate_fixed(d, n, auth_key) ==
    IF auth_key = AUTH_KEY
    THEN LET token == Token(1)
         IN Outcome(set_setting(d, "access_token", token),
                    [Reply(200) EXCEPT !.token = token])
    ELSE Outcome(d, Reply(401))

\* POST /api/auth; n is the number of tokens generated so far
authenticate(d, n, auth_key) ==
    IF auth_key = AUTH_KEY
    THEN LET token == Token(n + 1)
         IN Outcome(set_setting(d, "access_token", token),
                    [Reply(200) EXCEPT !.token = token])
    ELSE Outcome(d, Reply(401))

\* POST /api/verify
verify(d, token) ==
    IF verify_token(d, token) THEN Outcome(d, Reply(200)) ELSE Outcome(d, Reply(401))

-----------------------------------------------------------------------------
(* app.py: the protected handlers.  X_body is the handler after its token
   check; X is the whole handler. *)

\* psutil readings are the host's; failed is "psutil raised"
get_system_info_body(d, failed) ==
    IF failed THEN Outcome(d, Reply(500)) ELSE Outcome(d, Reply(200))

get_system_info(d, header, failed) ==
    IF ~verify_token(d, BearerToken(header)) THEN Outcome(d, Unauthorized)
    ELSE get_system_info_body(d, failed)

get_groups_body(d) ==
    Outcome(d, [Reply(200) EXCEPT !.list = get_all_groups(d)])

get_groups(d, header) ==
    IF ~verify_token(d, BearerToken(header)) THEN Outcome(d, Unauthorized)
    ELSE get_groups_body(d)

\* data["name"] raises KeyError when the body has no name: Flask answers 500
create_group_body(d, data) ==
    IF data.name = NoName THEN Outcome(d, Reply(500))
    ELSE Outcome(db_create_group(d, data.name,
                                 IF data.order = NoOrder THEN 999 ELSE data.order,
                                 data.is_nas_service),
                 [Reply(200) EXCEPT !.id = d.groupSeq + 1])

\* create_group, were its token check missing
create_group_unguarded(d, header, data) ==
    create_group_body(d, data)

create_group(d, header, data) ==
    IF ~verify_token(d, BearerToken(header)) THEN Outcome(d, Unauthorized)
    ELSE create_group_body(d, data)

update_group_body(d, group_id, data) ==
    IF data.name = NoName THEN Outcome(d, Reply(500))
    ELSE Outcome(db_update_group(d, group_id, data.name, data.order), Reply(200))

update_group(d, header, group_id, data) ==
    IF ~verify_token(d, BearerToken(header)) THEN Outcome(d, Unauthorized)
    ELSE update_group_body(d, group_id, data)

delete_group_body(d, fk, group_id) ==
    Outcome(db_delete_group(d, fk, group_id), Reply(200))

delete_group(d, fk, header, group_id) ==
    IF ~verify_token(d, BearerToken(header)) THEN Outcome(d, Unauthorized)
    ELSE delete_group_body(d, fk, group_id)

\* with foreign keys enforced, INSERT of a service whose group is missing raises
\* IntegrityError: Flask answers 500
create_service_body(d, fk, data) ==
    IF data.name = NoName \/ (fk /\ data.group_id \notin DOMAIN d.groups)
    THEN Outcome(d, Reply(500))
    ELSE Outcome(db_create_service(d, data.group_id, data.name,
                                   IF data.url_public = NoText THEN "" ELSE data.url_public,
                                   IF data.url_local = NoText THEN "" ELSE data.url_local,
                                   IF data.icon = NoText THEN "" ELSE data.icon,
                                   IF data.order = NoOrder THEN 999 ELSE data.order),
                 [Reply(200) EXCEPT !.id = d.serviceSeq + 1])

create_service(d, fk, header, data) ==
    IF ~verify_token(d, BearerToken(header)) THEN Outcome(d, Unauthorized)
    ELSE create_service_body(d, fk, data)

update_service_body(d, service_id, data) ==
    IF data.name = NoName THEN Outcome(d, Reply(500))
    ELSE Outcome(db_update_service(d, service_id, data.name, data.url_public,
                                   data.url_local, data.icon, data.order),
                 Reply(200))

update_service(d, header, service_id, data) ==
    IF ~verify_token(d, BearerToken(header)) THEN Outcome(d, Unauthorized)
    ELSE update_service_body(d, service_id, data)

delete_service_body(d, service_id) ==
    Outcome(db_delete_service(d, service_id), Reply(200))

delete_service(d, header, service_id) ==
    IF ~verify_token(d, BearerToken(header)) THEN Outcome(d, Unauthorized)
    ELSE delete_service_body(d, service_id)

\* force_network or "auto"
get_settings_body(d) ==
    LET force_network == get_setting(d, "force_network_mode")
    IN Outcome(d, [Reply(200) EXCEPT
                     !.mode = IF Truthy(force_network) THEN force_network ELSE Auto])

get_settings(d, header) ==
    IF ~verify_token(d, BearerToken(header)) THEN Outcome(d, Unauthorized)
    ELSE get_settings_body(d)

\* save_settings, were it to store every key of the body
save_settings_body_all(d, data) ==
    Outcome([d EXCEPT !.settings = data @@ @], Reply(200))

\* data is the JSON body: a function from the keys it has to their values
save_settings_body(d, data) ==
    IF "force_network_mode" \in DOMAIN data
    THEN Outcome(set_setting(d, "force_network_mode", data["force_network_mode"]),
                 Reply(200))
    ELSE Outcome(d, Reply(200))

save_settings(d, header, data) ==
    IF ~verify_token(d, BearerToken(header)) THEN Outcome(d, Unauthorized)
    ELSE save_settings_body(d, data)

-----------------------------------------------------------------------------
(* app.py: fetch_icon *)

\* urls a client may send: text is the url as sent, in pieces; scheme and netloc
\* are what urlparse finds in it; parses is FALSE where urlparse raises ValueError
Urls ==
    {[text |-> <<"http", "://", "nas">>, scheme |-> "http", netloc |-> "nas", parses |-> TRUE],
     [text |-> <<"http", "://", "nas", "/app/">>, scheme |-> "http", netloc |-> "nas",
      parses |-> TRUE],
     [text |-> <<"nas">>, scheme |-> "", netloc |-> "", parses |-> TRUE],
     [text |-> <<"http", "://", "[nas">>, scheme |-> "", netloc |-> "", parses |-> FALSE]}

favicon_urls(url) ==
    LET base_url == <<url.scheme, "://", url.netloc>>
    IN <<base_url \o <<"/favicon.ico">>,
         base_url \o <<"/favicon.png">>,
         base_url \o <<"/apple-touch-icon.png">>,
         base_url \o <<"/apple-touch-icon-precomposed.png">>,
         base_url \o <<"/static/favicon.ico">>,
         url.text \o <<"/favicon.ico">>>>

B64Alphabet ==
    <<"A", "B", "C", "D", "E", "F", "G", "H", "I", "J", "K", "L", "M", "N", "O", "P",
      "Q", "R", "S", "T", "U", "V", "W", "X", "Y", "Z", "a", "b", "c", "d", "e", "f",
      "g", "h", "i", "j", "k", "l", "m", "n", "o", "p", "q", "r", "s", "t", "u", "v",
      "w", "x", "y", "z", "0", "1", "2", "3", "4", "5", "6", "7", "8", "9", "+", "/">>

\* base64.b64encode(content).decode("utf-8"), one character per element
RECURSIVE b64encode(_)
b64encode(content) ==
    LET A(i) == B64Alphabet[i + 1]
        b(i) == content[i]
    IN IF Len(content) = 0 THEN <<>>
       ELSE IF Len(content) = 1
            THEN <<A(b(1) \div 4), A((b(1) % 4) * 16), "=", "=">>
       ELSE IF Len(content) = 2
            THEN <<A(b(1) \div 4), A((b(1) % 4) * 16 + b(2) \div 16),
                   A((b(2) % 16) * 4), "=">>
       ELSE <<A(b(1) \div 4), A((b(1) % 4) * 16 + b(2) \div 16),
              A((b(2) % 16) * 4 + b(3) \div 64), A(b(3) % 64)>>
                \o b64encode(SubSeq(content, 4, Len(content)))

\* response.headers.get("content-type", "image/x-icon")
NoContentType == "<absent>"

data_uri(response) ==
    LET icon_base64 == b64encode(response.content)
        content_type == IF response.content_type = NoContentType
                        THEN "image/x-icon" ELSE response.content_type
    IN <<"data:", content_type, ";base64,">> \o icon_base64

\* what requests.get does: it raises (connection error, timeout, bad url), or
\* returns a response
Raised == [raised |-> TRUE, status_code |-> 0, content_type |-> NoContentType,
           content |-> <<>>]

Answer(status_code, content_type, content) ==
    [raised |-> FALSE, status_code |-> status_code, content_type |-> content_type,
     content |-> content]

Bodies == {<<>>, <<77>>, <<77, 97>>, <<77, 97, 110>>, <<255, 254, 253, 0>>}

Responses ==
    {Raised, Answer(404, "text/html", <<>>), Answer(204, "image/png", <<>>)}
        \cup {Answer(200, ct, c) : ct \in {NoContentType, "image/png"}, c \in Bodies}

FewResponses == {Answer(200, "image/png", <<77>>)}

FewUrls == {u \in Urls : u.text \in {<<"http", "://", "nas">>, <<"http", "://", "[nas">>}}

NoUrl == [text |-> <<>>, scheme |-> "", netloc |-> "", parses |-> FALSE]

NoProbe == [active |-> FALSE, url |-> NoUrl, requested |-> <<>>, responses |-> <<>>]

\* the handler up to its loop: the token check, and urlparse
fetch_icon_body(d, url) ==
    IF ~url.parses THEN [probe |-> NoProbe, resp |-> Reply(500)]
    ELSE [probe |-> [NoProbe EXCEPT !.active = TRUE, !.url = url],
          resp |-> Reply(0)]

fetch_icon(d, header, url) ==
    IF ~verify_token(d, BearerToken(header))
    THEN [probe |-> NoProbe, resp |-> Unauthorized]
    ELSE fetch_icon_body(d, url)

\* fetch_icon's loop, were it to go on after the first 200
fetch_icon_try_on(candidates, p, response) ==
    LET favicon_url == candidates[Len(p.requested) + 1]
        q == [p EXCEPT !.requested = Append(@, favicon_url),
                       !.responses = Append(@, response)]
    IN IF Len(q.requested) = Len(candidates)
       THEN [probe |-> [q EXCEPT !.active = FALSE],
             resp |-> IF ~response.raised /\ response.status_code = 200
                      THEN [Reply(200) EXCEPT !.icon = data_uri(response)]
                      ELSE Reply(404)]
       ELSE [probe |-> q,
             resp |-> IF ~response.raised /\ response.status_code = 200
                      THEN [Reply(200) EXCEPT !.icon = data_uri(response)]
                      ELSE Reply(0)]

\* fetch_icon's loop, were the try/except around the request missing
fetch_icon_try_raise(candidates, p, response) ==
    LET favicon_url == candidates[Len(p.requested) + 1]
        q == [p EXCEPT !.requested = Append(@, favicon_url),
                       !.responses = Append(@, response)]
    IN IF response.raised
       THEN [probe |-> [q EXCEPT !.active = FALSE], resp |-> Reply(500)]
       ELSE IF response.status_code = 200
       THEN [probe |-> [q EXCEPT !.active = FALSE],
             resp |-> [Reply(200) EXCEPT !.icon = data_uri(response)]]
       ELSE IF Len(q.requested) = Len(candidates)
            THEN [probe |-> [q EXCEPT !.active = FALSE], resp |-> Reply(404)]
            ELSE [probe |-> q, resp |-> Reply(0)]

\* one turn of the loop over favicon_urls: candidates is the list, p the loop's
\* state, response what requests.get does for the candidate
fetch_icon_try(candidates, p, response) ==
    LET favicon_url == candidates[Len(p.requested) + 1]
        q == [p EXCEPT !.requested = Append(@, favicon_url),
                       !.responses = Append(@, response)]
    IN IF ~response.raised /\ response.status_code = 200
       THEN [probe |-> [q EXCEPT !.active = FALSE],
             resp |-> [Reply(200) EXCEPT !.icon = data_uri(response)]]
       ELSE IF Len(q.requested) = Len(candidates)
            THEN [probe |-> [q EXCEPT !.active = FALSE], resp |-> Reply(404)]
            ELSE [probe |-> q, resp |-> Reply(0)]

-----------------------------------------------------------------------------
(* app.py: upload_icon *)

Abs(n) == IF n < 0 THEN -n ELSE n

\* thumbnail, were it a resize to fit the box whatever the picture's size
thumbnail_fit(bx, by, w, h) ==
    IF bx * h >= w * by
    THEN LET n == (by * w) \div h IN <<IF n > 1 THEN n ELSE 1, by>>
    ELSE LET n == (bx * h) \div w IN <<bx, IF n > 1 THEN n ELSE 1>>

\* Pillow's Image.thumbnail((bx, by)) on a w x h image: unchanged when it fits,
\* else the longer side is scaled to the box and the other side is
\* max(min(floor(v), ceil(v), key = distance of the aspect ratios), 1)
thumbnail(bx, by, w, h) ==
    IF bx >= w /\ by >= h THEN <<w, h>>
    ELSE IF bx * h >= w * by
         THEN LET f == (by * w) \div h
                  c == IF (by * w) % h = 0 THEN f ELSE f + 1
                  n == IF Abs(w * by - f * h) <= Abs(w * by - c * h) THEN f ELSE c
              IN <<IF n > 1 THEN n ELSE 1, by>>
         ELSE LET f == (bx * h) \div w
                  c == IF (bx * h) % w = 0 THEN f ELSE f + 1
                  n == IF f = 0 \/ Abs(w * f - bx * h) * c <= Abs(w * c - bx * h) * f
                       THEN f ELSE c
              IN <<bx, IF n > 1 THEN n ELSE 1>>

\* img.thumbnail((128, 128), Image.Resampling.LANCZOS)
ThumbnailBox == 128

\* image is what the body's "image" field decodes to: decodes is FALSE where
\* b64decode or Image.open raises
upload_icon_body(d, image) ==
    IF ~image.decodes THEN Outcome(d, Reply(500))
    ELSE Outcome(d, [Reply(200) EXCEPT
                       !.icon = <<"data:", "image/png", ";base64,">>,
                       !.size = thumbnail(ThumbnailBox, ThumbnailBox, image.w, image.h)])

upload_icon(d, header, image) ==
    IF ~verify_token(d, BearerToken(header)) THEN Outcome(d, Unauthorized)
    ELSE upload_icon_body(d, image)

-----------------------------------------------------------------------------
(* Requests a client may send *)

GroupData == [name : Names \cup {NoName}, order : {NoOrder, 1}, is_nas_service : {FALSE}]

GroupIds == 1..MaxRows

ServiceIds == 1..MaxRows

ServiceData ==
    [group_id : {1, 2}, name : Names \cup {NoName}, url_public : {NoText},
     url_local : {NoText}, icon : {NoText}, order : {NoOrder}]

ServiceUpdates ==
    [name : Names \cup {NoName}, url_public : {NoText}, url_local : {NoText},
     icon : {NoText}, order : {NoOrder}]

\* bodies of POST /api/settings; one of them names the access_token key
SettingsData ==
    {<<>>}
        \cup {("force_network_mode" :> m) : m \in Modes}
        \cup {("force_network_mode" :> m) @@ ("access_token" :> Token(MaxTokens + 1)) :
                m \in Modes}

\* what the body's "image" field decodes to: decodes is FALSE where b64decode or
\* Image.open raises
NoImage == [decodes |-> FALSE, w |-> 0, h |-> 0]

Picture(w, h) == [decodes |-> TRUE, w |-> w, h |-> h]

FewImages == {Picture(1000, 500)}

Images ==
    {NoImage, Picture(1000, 500), Picture(500, 1000), Picture(4000, 1), Picture(1, 4000),
     Picture(257, 256), Picture(4000, 3000)}
        \cup {Picture(w, h) : w \in 1..MaxDim, h \in 1..MaxDim}

\* a worker thread: where it is in its handler (pc), its request, the token it
\* generated and the counter it took it from (authenticate, until the token is
\* stored), the stored token its check read (seen, until its write), and the
\* status it answered
Threads == 1..NThreads

IdleThread ==
    [pc |-> "idle", op |-> "none", header |-> None, n |-> 0,
     token |-> None, seen |-> None, status |-> 0]

-----------------------------------------------------------------------------
(* The service handling one request at a time *)

\* the request handled last: the handler, and the header, secret or token sent
Request(op, header, auth_key, token) ==
    [op |-> op, header |-> header, auth_key |-> auth_key, token |-> token]

NoRequest == Request("none", None, "-", None)

InitWith(images) ==
    /\ picture \in images
    /\ db = InitDb
    /\ foreignKeys \in BOOLEAN
    /\ issued = 0
    /\ lastReq = NoRequest
    /\ resp = Reply(0)
    /\ probe = NoProbe
    /\ thr = [t \in Threads |-> IdleThread]

Init == InitWith(FewImages)

\* a handler that runs to its response in one piece
Serve(req, out) ==
    /\ ~probe.active
    /\ lastReq' = req
    /\ db' = out.db
    /\ resp' = out.resp
    /\ probe' = NoProbe
    /\ UNCHANGED <<picture, foreignKeys, thr>>

\* the bodies (or ids) to tell apart for a request with this header: a handler
\* reads them after its token check, so for a header the check refuses one
\* stands for all
Sent(header, S) ==
    IF verify_token(db, BearerToken(header)) THEN S ELSE {CHOOSE x \in S : TRUE}

PostAuth ==
    \E auth_key \in AuthKeys :
        /\ auth_key = AUTH_KEY => issued < MaxTokens
        /\ Serve(Request("authenticate", None, auth_key, None),
                 authenticate(db, issued, auth_key))
        /\ issued' = IF auth_key = AUTH_KEY THEN issued + 1 ELSE issued

PostVerify ==
    \E token \in VerifyTokens :
        /\ Serve(Request("verify", None, "-", token), verify(db, token))
        /\ UNCHANGED issued

GetSystemInfo ==
    \E header \in Headers : \E failed \in Sent(header, BOOLEAN) :
        /\ Serve(Request("get_system_info", header, "-", None),
                 get_system_info(db, header, failed))
        /\ UNCHANGED issued

GetGroups ==
    \E header \in Headers :
        /\ Serve(Request("get_groups", header, "-", None), get_groups(db, header))
        /\ UNCHANGED issued

PostGroups ==
    \E header \in Headers : \E data \in Sent(header, GroupData) :
        /\ db.groupSeq + db.serviceSeq < MaxRows
        /\ Serve(Request("create_group", header, "-", None),
                 create_group(db, header, data))
        /\ UNCHANGED issued

PutGroup ==
    \E header \in Headers : \E group_id \in Sent(header, GroupIds) :
        \E data \in Sent(header, GroupData) :
            /\ Serve(Request("update_group", header, "-", None),
                     update_group(db, header, group_id, data))
            /\ UNCHANGED issued

DeleteGroup ==
    \E header \in Headers : \E group_id \in Sent(header, GroupIds) :
        /\ Serve(Request("delete_group", header, "-", None),
                 delete_group(db, foreignKeys, header, group_id))
        /\ UNCHANGED issued

PostServices ==
    \E header \in Headers : \E data \in Sent(header, ServiceData) :
        /\ db.groupSeq + db.serviceSeq < MaxRows
        /\ Serve(Request("create_service", header, "-", None),
                 create_service(db, foreignKeys, header, data))
        /\ UNCHANGED issued

PutService ==
    \E header \in Headers : \E service_id \in Sent(header, ServiceIds) :
        \E data \in Sent(header, ServiceUpdates) :
            /\ Serve(Request("update_service", header, "-", None),
                     update_service(db, header, service_id, data))
            /\ UNCHANGED issued

DeleteService ==
    \E header \in Headers : \E service_id \in Sent(header, ServiceIds) :
        /\ Serve(Request("delete_service", header, "-", None),
                 delete_service(db, header, service_id))
        /\ UNCHANGED issued

GetSettings ==
    \E header \in Headers :
        /\ Serve(Request("get_settings", header, "-", None), get_settings(db, header))
        /\ UNCHANGED issued

PostSettings ==
    \E header \in Headers : \E data \in Sent(header, SettingsData) :
        /\ Serve(Request("save_settings", header, "-", None),
                 save_settings(db, header, data))
        /\ UNCHANGED issued

UploadIcon ==
    \E header \in Headers :
        /\ Serve(Request("upload_icon", header, "-", None),
                 upload_icon(db, header, picture))
        /\ UNCHANGED issued

\* fetch_icon up to its loop
FetchIcon(urls) ==
    \E header \in Headers : \E url \in Sent(header, urls) :
        LET out == fetch_icon(db, header, url)
        IN /\ ~probe.active
           /\ lastReq' = Request("fetch_icon", header, "-", None)
           /\ probe' = out.probe
           /\ resp' = out.resp
           /\ UNCHANGED <<picture, db, foreignKeys, issued, thr>>

\* one turn of fetch_icon's loop: the request to the next candidate
FetchIconTry(responses) ==
    \E response \in responses :
        LET out == fetch_icon_try(favicon_urls(probe.url), probe, response)
        IN /\ probe.active
           /\ probe' = out.probe
           /\ resp' = out.resp
           /\ UNCHANGED <<picture, db, foreignKeys, issued, lastReq, thr>>

Next ==
    \/ PostAuth
    \/ PostVerify
    \/ GetSystemInfo
    \/ GetGroups
    \/ PostGroups
    \/ PutGroup
    \/ DeleteGroup
    \/ PostServices
    \/ PutService
    \/ DeleteService
    \/ GetSettings
    \/ PostSettings
    \/ UploadIcon
    \/ FetchIcon(FewUrls)
    \/ FetchIconTry(FewResponses)

Spec == Init /\ [][Next]_vars

\* the favicon resolver against every answer a candidate can give
NextFavicon ==
    \/ PostAuth
    \/ FetchIcon(Urls)
    \/ FetchIconTry(Responses)

SpecFavicon == Init /\ [][NextFavicon]_vars

\* the icon normalizer on every picture
InitThumb == InitWith(Images)

NextThumb ==
    \/ PostAuth
    \/ UploadIcon

SpecThumb == InitThumb /\ [][NextThumb]_vars

-----------------------------------------------------------------------------
(* The threaded server: each request runs on its own thread with its own
   connection; a thread's statements on the database (a SELECT, or a write
   with its commit) are the steps that interleave. *)

\* the writes the threads run
ConcOps == {"delete_group", "save_settings"}

\* the handler after its token check, for the requests the threads run
Body(op, d, fk) ==
    CASE op = "delete_group" -> delete_group_body(d, fk, 1)
      [] op = "save_settings" ->
           save_settings_body(d, ("force_network_mode" :> <<101>>))

Free(t) == thr[t].pc \in {"idle", "done"}

\* authenticate, from the request to generate_token
AcceptAuth ==
    \E t \in Threads, auth_key \in {AUTH_KEY, "54321"} :
        /\ Free(t)
        /\ auth_key = AUTH_KEY => issued < MaxTokens
        /\ IF auth_key = AUTH_KEY
           THEN /\ issued' = issued + 1
                /\ thr' = [thr EXCEPT ![t] =
                             [IdleThread EXCEPT !.pc = "store", !.op = "authenticate",
                                                !.n = issued,
                                                !.token = Token(issued + 1)]]
           ELSE /\ issued' = issued
                /\ thr' = [thr EXCEPT ![t] =
                             [IdleThread EXCEPT
                                !.pc = "done", !.op = "authenticate",
                                !.status = authenticate(db, issued, auth_key).resp.status]]
        /\ UNCHANGED <<picture, db, foreignKeys, lastReq, resp, probe>>

\* authenticate: db.set_setting("access_token", token), and the response
AuthStore ==
    \E t \in Threads :
        LET out == authenticate(db, thr[t].n, AUTH_KEY)
        IN /\ thr[t].pc = "store"
           /\ db' = out.db
           /\ thr' = [thr EXCEPT ![t].pc = "done", ![t].status = out.resp.status,
                                 ![t].token = out.resp.token, ![t].n = 0]
           /\ UNCHANGED <<picture, foreignKeys, issued, lastReq, resp, probe>>

\* a protected handler, from the request to the header's token
Accept ==
    \E t \in Threads, op \in ConcOps, header \in BearerHeaders :
        /\ Free(t)
        /\ thr' = [thr EXCEPT ![t] =
                     [IdleThread EXCEPT !.pc = "check", !.op = op, !.header = header]]
        /\ UNCHANGED <<picture, db, foreignKeys, issued, lastReq, resp, probe>>

\* if not verify_token(token): return 401
Check ==
    \E t \in Threads :
        /\ thr[t].pc = "check"
        /\ IF verify_token(db, BearerToken(thr[t].header))
           THEN thr' = [thr EXCEPT ![t].pc = "body",
                                   ![t].seen = get_setting(db, "access_token")]
           ELSE thr' = [thr EXCEPT ![t].pc = "done", ![t].status = Unauthorized.status]
        /\ UNCHANGED <<picture, db, foreignKeys, issued, lastReq, resp, probe>>

\* the handler after its check: the write, and the response
Run ==
    \E t \in Threads :
        LET out == Body(thr[t].op, db, foreignKeys)
        IN /\ thr[t].pc = "body"
           /\ db' = out.db
           /\ thr' = [thr EXCEPT ![t].pc = "done", ![t].status = out.resp.status,
                                 ![t].seen = None]
           /\ UNCHANGED <<picture, foreignKeys, issued, lastReq, resp, probe>>

NextConc ==
    \/ AcceptAuth
    \/ AuthStore
    \/ Accept
    \/ Check
    \/ Run

SpecConc == Init /\ [][NextConc]_vars

-----------------------------------------------------------------------------
(* Properties *)

Stored(d) == get_setting(d, "access_token")

\* a step that is a POST /api/auth with the correct secret
AuthStep == lastReq'.op = "authenticate" /\ lastReq'.auth_key = AUTH_KEY

\* C1: an authenticate with the correct secret returns a token that verifies
\* true, that differs from the token stored before and from every token issued
\* before, and with it the token stored before verifies false; between two such
\* calls no step changes which tokens verify true.
C1_TokenRotation ==
    [][/\ AuthStep =>
            /\ resp'.status = 200
            /\ verify_token(db', resp'.token)
            /\ resp'.token # Stored(db)
            /\ \A n \in 1..issued : resp'.token # Token(n) /\ ~verify_token(db', Token(n))
       /\ ~AuthStep =>
            \A t \in TokenTexts : verify_token(db', t) <=> verify_token(db, t)]_vars

\* the first token is asked after once a second one was issued, and is refused
C1_Witness ==
    /\ lastReq.op = "verify"
    /\ lastReq.token = Token(1)
    /\ Stored(db) = Token(2)
    /\ resp.status = 401

\* the handlers behind the Authorization check
ProtectedOps ==
    {"get_system_info", "get_groups", "create_group", "update_group", "delete_group",
     "create_service", "update_service", "delete_service", "fetch_icon", "upload_icon",
     "get_settings", "save_settings"}

C3_VerifyIffStored ==
    /\ ~verify_token(db, <<>>)
    /\ lastReq.op = "verify" =>
         /\ resp.status \in {200, 401}
         /\ resp.status = 200 <=>
              /\ lastReq.token # <<>>
              /\ "access_token" \in DOMAIN db.settings
              /\ db.settings["access_token"] = lastReq.token

\* the empty token is refused once a token is stored
C3_Witness ==
    /\ lastReq.op = "verify"
    /\ lastReq.token = <<>>
    /\ "access_token" \in DOMAIN db.settings
    /\ resp.status = 401

\* C6: an authenticate with another secret answers 401 and leaves the stored
\* token as it was; the stored token changes in no step but an authenticate
\* with the correct secret.
C6_TokenWrittenOnlyByAuth ==
    [][/\ (lastReq'.op = "authenticate" /\ lastReq'.auth_key # AUTH_KEY) =>
            /\ resp'.status = 401
            /\ Stored(db') = Stored(db)
       /\ Stored(db') # Stored(db) => AuthStep]_vars

\* a wrong secret is refused while a token is stored
C6_Witness ==
    /\ lastReq.op = "authenticate"
    /\ lastReq.auth_key # AUTH_KEY
    /\ resp.status = 401
    /\ Stored(db) = Token(1)

\* C10: when an authorized DELETE of a group removes the group's row, no
\* service with that group's id as group_id remains.
C10_DeleteCascades ==
    [][(lastReq'.op = "delete_group" /\ resp'.status = 200) =>
          \A g \in DOMAIN db.groups \ DOMAIN db'.groups :
              \A s \in DOMAIN db'.services : db'.services[s].group_id # g]_vars

Ok200(r) == ~r.raised /\ r.status_code = 200

\* the six candidates for the url http://nas, written out
NasCandidates ==
    <<<<"http", "://", "nas", "/favicon.ico">>,
      <<"http", "://", "nas", "/favicon.png">>,
      <<"http", "://", "nas", "/apple-touch-icon.png">>,
      <<"http", "://", "nas", "/apple-touch-icon-precomposed.png">>,
      <<"http", "://", "nas", "/static/favicon.ico">>,
      <<"http", "://", "nas", "/favicon.ico">>>>

\* base64 of the bodies explored, written out
Base64Of(content) ==
    CASE content = <<>> -> <<>>
      [] content = <<77>> -> <<"T", "Q", "=", "=">>
      [] content = <<77, 97>> -> <<"T", "W", "E", "=">>
      [] content = <<77, 97, 110>> -> <<"T", "W", "F", "u">>
      [] content = <<255, 254, 253, 0>> -> <<"/", "/", "7", "9", "A", "A", "=", "=">>

C5_FailuresSkipped ==
    LET n == Len(probe.responses)
    IN /\ (n >= 1 /\ n < 6 /\ ~Ok200(probe.responses[n])) =>
            probe.active /\ resp.status = 0
       /\ (n = 6 /\ \A i \in 1..6 : ~Ok200(probe.responses[i])) =>
            ~probe.active /\ resp.status = 404
       /\ n >= 1 => resp.status # 500

\* six failures of every kind, ending in 404
C5_Witness ==
    /\ Len(probe.responses) = 6
    /\ probe.responses[1] = Raised
    /\ probe.responses[2].status_code = 404
    /\ probe.responses[3].status_code = 204
    /\ probe.responses[6] = Raised
    /\ resp.status = 404

\* C7: the normalized icon is at most 128 x 128 and at least 1 x 1, no side is
\* larger than the input's, a picture that fits 128 x 128 keeps its size, and a
\* picture that does not has its longer side at 128 and its other side within
\* one pixel of the exact scaled value; 1000 x 500 gives 128 x 64.
C7_ThumbnailBounds ==
    (lastReq.op = "upload_icon" /\ resp.status = 200) =>
        LET w == picture.w
            h == picture.h
            tw == resp.size[1]
            th == resp.size[2]
        IN /\ 1 <= tw /\ tw <= 128 /\ tw <= w
           /\ 1 <= th /\ th <= 128 /\ th <= h
           /\ (w <= 128 /\ h <= 128) => (tw = w /\ th = h)
           /\ (w > 128 \/ h > 128) =>
                \/ tw = 128 /\ w >= h /\ Abs(th * w - 128 * h) < w
                \/ th = 128 /\ h >= w /\ Abs(tw * h - 128 * w) < h
           /\ (w = 1000 /\ h = 500) => (tw = 128 /\ th = 64)

\* the 1000 x 500 picture has been normalized
C7_Witness ==
    /\ lastReq.op = "upload_icon"
    /\ resp.status = 200
    /\ picture = Picture(1000, 500)
    /\ resp.size = <<128, 64>>

\* the tokens authenticate has answered with: those of the calls that are over
Returned == {Token(n) : n \in 1..issued} \ {thr[t].token : t \in {u \in Threads : thr[u].pc = "store"}}

\* C8: with authenticate calls running at the same time, at most one token
\* verifies true in every state; the store of a call leaves exactly that call's
\* token stored, which is the token the call answers with; and once every call
\* is over, the stored token is one of the tokens answered and every other
\* answered token verifies false.
C8_NoLostTokenUpdate ==
    /\ [](Cardinality({t \in TokenTexts : verify_token(db, t)}) <= 1)
    /\ []((issued > 0 /\ \A t \in Threads : thr[t].pc # "store") =>
            /\ Stored(db) \in Returned
            /\ \A tok \in Returned \ {Stored(db)} : ~verify_token(db, tok))
    /\ [][\A t \in Threads :
            (thr[t].pc = "store" /\ thr'[t].pc = "done") =>
                /\ thr'[t].status = 200
                /\ thr'[t].token = Token(thr[t].n + 1)
                /\ Stored(db') = thr'[t].token
                /\ verify_token(db', thr'[t].token)]_vars

\* two authenticate calls have run at the same time and both are over
C8_Witness ==
    /\ \A t \in {1, 2} : thr[t].pc = "done" /\ thr[t].op = "authenticate" /\ thr[t].status = 200
    /\ thr[1].token = Token(2)
    /\ thr[2].token = Token(1)
    /\ Stored(db) = Token(1)

\* a step in which thread t runs its handler's write
Writes(t) == thr[t].pc = "body" /\ thr'[t].pc = "done" /\ db' # db

\* C9: once a new token is stored, no protected operation that presented a
\* token issued before performs a write.
C9_NoWriteWithReplacedToken ==
    [][\A t \in Threads : Writes(t) => BearerToken(thr[t].header) = Stored(db)]_vars

\* C9 as amended: a protected operation whose token check runs once a new token
\* is stored, and that presented another token, answers 401 and performs no
\* write; a write is performed only by an operation whose token was the stored
\* one when its check ran (the check may have run before the new token was
\* stored), or by the store of an authenticate.
C9_NoWriteAfterFailedCheck ==
    [][/\ \A t \in Threads :
            /\ (thr[t].pc = "check" /\ thr'[t] # thr[t]
                  /\ BearerToken(thr[t].header) # Stored(db)) =>
                    /\ thr'[t].pc = "done"
                    /\ thr'[t].status = 401
                    /\ db' = db
            /\ (thr[t].pc = "body" /\ thr'[t].pc = "done") =>
                    /\ Truthy(thr[t].seen)
                    /\ thr[t].seen = BearerToken(thr[t].header)
       /\ db' # db =>
            \E t \in Threads : thr[t].pc \in {"body", "store"} /\ thr'[t].pc = "done"]_vars

\* a request with the first token is refused, its check having run after the
\* second token was stored by a call on the other thread
C9_Witness ==
    \E t \in Threads, u \in Threads :
        /\ t # u
        /\ thr[t].pc = "done" /\ thr[t].op = "delete_group" /\ thr[t].status = 401
        /\ thr[t].header = <<Bearer>> \o Token(1)
        /\ Stored(db) = Token(2)
        /\ thr[u].op = "authenticate" /\ thr[u].token = Token(2) /\ thr[u].pc = "done"

====
